---------------------------- MODULE Spec2Model ----------------------------
(***************************************************************************)
(* Model of the geonode-importer orchestration core:                       *)
(*   importer/api/views.py      ImporterViewSet.create, ResourceImporter.copy *)
(*   importer/handlers/vector.py GPKGFileHandler, VectorBaseErrorTask,      *)
(*                               gpkg_handler, gpkg_ogr2ogr, gpkg_next_step *)
(*                                                                         *)
(* Python strings that the code transforms (execution ids, layer names,    *)
(* field names) are sequences of one-character strings, so that            *)
(* str.replace and str.lower are computed and not assumed.                 *)
(***************************************************************************)
EXTENDS Integers, Sequences, FiniteSets, Bags, TLC

VARIABLES
    ExecutionRequest,   \* the Ledger: exec_id -> record (geonode.resource.models)
    ModelSchema,        \* dynamic_models ModelSchema table: id (index) -> [name]
    FieldSchema,        \* dynamic_models FieldSchema table: schema id -> rows
    import_pc,          \* exec_id -> position of import_resource's loop over the layers
    chords,             \* <<exec_id, layer index>> -> the chord import_resource started
    sent,               \* bag of import_orchestrator messages given to apply_async
    consumed,           \* the messages a worker has taken
    responses,          \* what the views returned or raised, in request order
    storage,            \* local paths staged by a StorageManager and not deleted
    logged_fields,      \* field names reported by gpkg_handler's logger.error
    uploads             \* the files a client can upload: name -> layers (as ogr.Open reads them)

vars == <<ExecutionRequest, ModelSchema, FieldSchema, import_pc, chords,
          sent, consumed, responses, storage, logged_fields, uploads>>

---------------------------------------------------------------------------
(* Bounds *)

\* requests handled by the two views together
MaxRequests == 2
\* imports accepted by ImporterViewSet.create (each starts a pipeline)
MaxImports == 1
\* largest number of attribute fields of the generated layer of SpecBatch
MaxFields == 130
\* runs of import_resource for one execution in SpecRerun
MaxRuns == 2

---------------------------------------------------------------------------
(* Python values *)

None == "None"

PyStr(s) == [type |-> "str", value |-> s]
PyInt(n) == [type |-> "int", value |-> n]

\* str.replace(old, new) for one-character old and new
replace(s, old, new) == [i \in DOMAIN s |-> IF s[i] = old THEN new ELSE s[i]]

UpperCase == <<"A", "B", "C", "D", "E", "F", "G", "H", "I", "J", "K", "L", "M",
               "N", "O", "P", "Q", "R", "S", "T", "U", "V", "W", "X", "Y", "Z">>
LowerCase == <<"a", "b", "c", "d", "e", "f", "g", "h", "i", "j", "k", "l", "m",
               "n", "o", "p", "q", "r", "s", "t", "u", "v", "w", "x", "y", "z">>

lower_char(c) ==
    IF \E i \in DOMAIN UpperCase : UpperCase[i] = c
    THEN LowerCase[CHOOSE i \in DOMAIN UpperCase : UpperCase[i] = c]
    ELSE c

\* str.lower()
lower(s) == [i \in DOMAIN s |-> lower_char(s[i])]

\* dict.get(key) on a dict kept as a set of <<key, value>> pairs
dict_get(d, key) ==
    IF \E p \in d : p[1] = key
    THEN (CHOOSE p \in d : p[1] = key)[2]
    ELSE None

Range(s) == {s[i] : i \in DOMAIN s}

---------------------------------------------------------------------------
(* The type tables of importer/handlers/base.py *)

STANDARD_TYPE_MAPPING ==
    {<<"Integer64", "django.db.models.IntegerField">>,
     <<"Integer", "django.db.models.IntegerField">>,
     <<"DateTime", "django.db.models.DateTimeField">>,
     <<"Real", "django.db.models.FloatField">>,
     <<"String", "django.db.models.CharField">>}

GEOM_TYPE_MAPPING ==
    {<<"Point", "django.contrib.gis.db.models.fields.PointField">>,
     <<"Polygon", "django.contrib.gis.db.models.fields.PolygonField">>}

\* class_name.endswith('CharField') over the class names of the tables
endswith_CharField(class_name) == class_name = "django.db.models.CharField"

\* GPKGFileHandler._get_type
_get_type(field) == dict_get(STANDARD_TYPE_MAPPING, field.type)

---------------------------------------------------------------------------
(* Source files as ogr.Open reads them: a sequence of layers, each with a   *)
(* name, an attribute schema and a geometry column ("" when it has none).   *)

Digits == <<"0", "1", "2", "3", "4", "5", "6", "7", "8", "9">>

\* the decimal digits of n < 1000, as characters
digits3(n) == <<Digits[(n \div 100) + 1], Digits[((n \div 10) % 10) + 1], Digits[(n % 10) + 1]>>

LayerR ==
    [name |-> <<"r">>,
     schema |-> << [name |-> <<"N", "a", "m", "e">>, type |-> "String"],
                   [name |-> <<"P", "i", "c">>, type |-> "Binary"] >>,
     geometry_column |-> <<"g", "e", "o", "m">>,
     geom_type |-> "Point"]

LayerS ==
    [name |-> <<"s">>,
     schema |-> << [name |-> <<"I", "d">>, type |-> "Integer64"] >>,
     geometry_column |-> <<>>,
     geom_type |-> "None"]

LayerT ==
    [name |-> <<"t">>,
     schema |-> << [name |-> <<"L", "b", "l">>, type |-> "String"] >>,
     geometry_column |-> <<"g", "e", "o", "m">>,
     geom_type |-> "Polygon"]

\* a layer of the name of LayerR whose fields all have mapped types
LayerQ ==
    [name |-> <<"r">>,
     schema |-> << [name |-> <<"N", "a", "m", "e">>, type |-> "String"] >>,
     geometry_column |-> <<"g", "e", "o", "m">>,
     geom_type |-> "Point"]

\* a layer of n attribute fields F000, F001, ... of mapped types
GeneratedLayer(n, with_geometry) ==
    [name |-> <<"b">>,
     schema |-> [i \in 1..n |->
                    [name |-> <<"F">> \o digits3(i - 1),
                     type |-> IF i % 2 = 0 THEN "String" ELSE "Integer"]],
     geometry_column |-> IF with_geometry THEN <<"g", "e", "o", "m">> ELSE <<>>,
     geom_type |-> IF with_geometry THEN "Point" ELSE "None"]


---------------------------------------------------------------------------
(* The Execution Ledger (importer/orchestrator.py, geonode ExecutionRequest) *)

STATUS_READY == "ready"
STATUS_RUNNING == "running"
STATUS_FAILED == "failed"
STATUS_FINISHED == "finished"

NoLog == [kind |-> "none", layer |-> <<>>, pct |-> <<0, 1>>, detail |-> ""]
ProgressLog(layer_name, index, layer_count) ==
    [kind |-> "progress", layer |-> layer_name, pct |-> <<100 * index, layer_count>>, detail |-> ""]
DetailLog(detail) ==
    [kind |-> "detail", layer |-> <<>>, pct |-> <<0, 1>>, detail |-> detail]

\* the k-th execution id (a uuid: hexadecimal groups joined by hyphens)
NewExecId(k) == <<"e", Digits[(k % 10) + 1], "-", "a", "-", "b">>

\* the rows of `ledger` that ExecutionRequest.objects.filter(exec_id=key) selects;
\* key is a Python value, and only a string can equal an exec_id
filter_exec_id(ledger, key) ==
    IF key.type = "str" THEN {e \in DOMAIN ledger : e = key.value} ELSE {}

\* QuerySet.update(status=..., log=...) on the selected rows
queryset_update(ledger, rows, status, log) ==
    [e \in DOMAIN ledger |->
        IF e \in rows THEN [ledger[e] EXCEPT !.status = status, !.log = log]
        ELSE ledger[e]]

\* orchestrator.update_execution_request_status(execution_id, status, log=...)
update_execution_request_status(ledger, key, status, log) ==
    queryset_update(ledger, filter_exec_id(ledger, key), status, log)

\* orchestrator.set_as_failed(execution_id, reason)
set_as_failed(ledger, key, reason) ==
    update_execution_request_status(ledger, key, STATUS_FAILED, DetailLog(reason))

\* orchestrator.create_execution_request(...): a new row, its id returned
create_execution_request(ledger, user, step, input_params, action, source) ==
    LET id == NewExecId(Cardinality(DOMAIN ledger) + 1)
    IN  [id |-> id,
         ledger |-> ledger @@ (id :> [user |-> user, status |-> STATUS_READY,
                                      log |-> NoLog, step |-> step,
                                      input_params |-> input_params,
                                      action |-> action, source |-> source])]

\* importer.handlers.utils.should_be_imported: false only for a layer the
\* user already has when skip_existing_layer is set
Resources == { <<"u", <<"r">> >> }

should_be_imported(layer_name, user, skip_existing_layer, override_existing_layer) ==
    ~ (<<user, layer_name>> \in Resources /\ skip_existing_layer)

---------------------------------------------------------------------------
(* dynamic_models: ModelSchema.objects.get_or_create and FieldSchema rows *)

schema_ids(table, name) == {i \in DOMAIN table : table[i].name = name}

\* ModelSchema.objects.get_or_create(name=...): <<table, id, created>>
get_or_create(table, name) ==
    IF schema_ids(table, name) # {}
    THEN [table |-> table, id |-> CHOOSE i \in schema_ids(table, name) : TRUE, created |-> FALSE]
    ELSE [table |-> Append(table, [name |-> name]), id |-> Len(table) + 1, created |-> TRUE]


\* FieldSchema is unique on (name, model_schema): whether bulk_create of
\* row_to_insert into a schema holding `rows` is rejected by the database
violates_unique(rows, row_to_insert) ==
    LET old == {rows[j].name : j \in DOMAIN rows}
        new == {row_to_insert[i].name : i \in DOMAIN row_to_insert}
    IN  old \cap new # {} \/ Cardinality(new) # Len(row_to_insert)

---------------------------------------------------------------------------
(* GPKGFileHandler (importer/handlers/vector.py) *)

STEP_IMPORT_RESOURCE == "importer.import_resource"

TASKS_LIST ==
    <<"start_import", STEP_IMPORT_RESOURCE, "importer.publish_resource",
      "importer.create_gn_resource">>

BatchSize == 50

Min(a, b) == IF a < b THEN a ELSE b

\* a field list that leaves the geometry column out
layer_schema_attributes_only(layer) ==
    [i \in DOMAIN layer.schema |->
        [name |-> lower(layer.schema[i].name),
         class_name |-> _get_type(layer.schema[i]),
         null |-> TRUE]]

\* the dicts create_dynamic_model_fields builds: the attribute fields carry
\* "null", the geometry field does not
layer_schema(layer) ==
    [i \in DOMAIN layer.schema |->
        [name |-> lower(layer.schema[i].name),
         class_name |-> _get_type(layer.schema[i]),
         null |-> TRUE]]
    \o (IF layer.geometry_column # <<>>
        THEN << [name |-> layer.geometry_column,
                 class_name |-> dict_get(GEOM_TYPE_MAPPING, layer.geom_type)] >>
        ELSE << >>)

\* range(0, n, BatchSize), as the sequence of its values
chunk_starts(n) == [j \in 1..((n + BatchSize - 1) \div BatchSize) |-> (j - 1) * BatchSize]

\* chunks that each reach one field into the next one
list_chunked_overlapping(fields) ==
    LET starts == chunk_starts(Len(fields))
    IN  [j \in DOMAIN starts |->
            SubSeq(fields, starts[j] + 1, Min(starts[j] + BatchSize + 1, Len(fields)))]

\* [layer_schema[i:i + 50] for i in range(0, len(layer_schema), 50)]
list_chunked(fields) ==
    LET starts == chunk_starts(Len(fields))
    IN  [j \in DOMAIN starts |->
            SubSeq(fields, starts[j] + 1, Min(starts[j] + BatchSize, Len(fields)))]

\* an alternate that keeps the hyphens of the execution id
alternate_name_hyphens(layer_name, use_uuid, execution_id) ==
    IF ~ use_uuid THEN layer_name
    ELSE layer_name \o <<"_">> \o execution_id

\* the alternate import_resource computes from use_uuid
alternate_name(layer_name, use_uuid, execution_id) ==
    IF ~ use_uuid THEN layer_name
    ELSE layer_name \o <<"_">> \o replace(execution_id, "-", "_")

\* the name of the second get_or_create of _setup_dynamic_model
uuid_schema_name(layer_name, execution_id) ==
    layer_name \o <<"_">> \o replace(execution_id, "-", "_")

\* a setup that disambiguates every layer whose bare name has a schema,
\* override or not
_setup_dynamic_model_no_override(table, layer, execution_id, should_be_overrided) ==
    LET first == get_or_create(table, layer.name)
        use_uuid == ~ first.created
        foi == IF use_uuid
               THEN get_or_create(first.table, uuid_schema_name(layer.name, execution_id))
               ELSE first
    IN  [table |-> foi.table,
         schema_id |-> foi.id,
         use_uuid |-> use_uuid,
         job |-> list_chunked(layer_schema(layer))]

\* _setup_dynamic_model: the schema table afterwards, the schema the fields
\* go to, use_uuid and the group of field batches
_setup_dynamic_model(table, layer, execution_id, should_be_overrided) ==
    LET first == get_or_create(table, layer.name)
        use_uuid == ~ first.created /\ ~ should_be_overrided
        foi == IF use_uuid
               THEN get_or_create(first.table, uuid_schema_name(layer.name, execution_id))
               ELSE first
    IN  [table |-> foi.table,
         schema_id |-> foi.id,
         use_uuid |-> use_uuid,
         job |-> list_chunked(layer_schema(layer))]

\* field.get('null', True)
field_null(field) == IF "null" \in DOMAIN field THEN field.null ELSE TRUE

\* the kwargs gpkg_handler gives a field
field_kwargs(field) ==
    IF endswith_CharField(field.class_name)
    THEN [null |-> field_null(field), max_length |-> 255]
    ELSE [null |-> field_null(field)]

\* _create_field
_create_field(dynamic_model_schema_id, field, kwargs) ==
    [name |-> field.name, class_name |-> field.class_name,
     model_schema |-> dynamic_model_schema_id, kwargs |-> kwargs]

\* the loop of gpkg_handler over `fields`, on a schema holding `rows`: the loop
\* ends the task at the first field without class_name; before that, in
\* overwrite mode a field whose name has a row updates the row in place, and
\* every other field is queued in row_to_insert for bulk_create
gpkg_handler_loop(fields, schema_id, overwrite, rows) ==
    LET unmapped == {i \in DOMAIN fields : fields[i].class_name = None}
        stop == IF unmapped = {} THEN Len(fields) + 1
                ELSE CHOOSE i \in unmapped : \A j \in unmapped : i <= j
        seen == SubSeq(fields, 1, stop - 1)
        names == {rows[j].name : j \in DOMAIN rows}
        updates(j) == {i \in DOMAIN seen : seen[i].name = rows[j].name}
        last(S) == CHOOSE i \in S : \A k \in S : k <= i
        is_new(field) == ~ overwrite \/ field.name \notin names
        queued == SelectSeq(seen, is_new)
    IN  [returned |-> unmapped # {},
         rows |-> IF ~ overwrite THEN rows
                  ELSE [j \in DOMAIN rows |->
                          IF updates(j) = {} THEN rows[j]
                          ELSE [rows[j] EXCEPT
                                  !.class_name = seen[last(updates(j))].class_name,
                                  !.kwargs = field_kwargs(seen[last(updates(j))])]],
         row_to_insert |-> [i \in DOMAIN queued |->
                              _create_field(schema_id, queued[i], field_kwargs(queued[i]))],
         logged |-> IF unmapped = {} THEN {} ELSE {fields[stop].name}]

\* a gpkg_handler whose failure takes the fields of the schema back out
gpkg_handler_rollback(fields, schema_id, overwrite, rows, db_error) ==
    LET loop == gpkg_handler_loop(fields, schema_id, overwrite, rows)
    IN  IF loop.returned
        THEN [rows |-> loop.rows, exc |-> None, logged |-> loop.logged]
        ELSE IF loop.row_to_insert = <<>>
        THEN [rows |-> loop.rows, exc |-> None, logged |-> {}]
        ELSE IF violates_unique(loop.rows, loop.row_to_insert)
        THEN [rows |-> <<>>, exc |-> "IntegrityError", logged |-> {}]
        ELSE IF db_error
        THEN [rows |-> <<>>, exc |-> "DatabaseError", logged |-> {}]
        ELSE [rows |-> loop.rows \o loop.row_to_insert, exc |-> None, logged |-> {}]

\* a gpkg_handler whose bulk_create the database never rejects for a name the
\* schema already has
gpkg_handler_unchecked(fields, schema_id, overwrite, rows, db_error) ==
    LET loop == gpkg_handler_loop(fields, schema_id, overwrite, rows)
    IN  IF loop.returned
        THEN [rows |-> loop.rows, exc |-> None, logged |-> loop.logged]
        ELSE IF loop.row_to_insert = <<>>
        THEN [rows |-> loop.rows, exc |-> None, logged |-> {}]
        ELSE IF db_error
        THEN [rows |-> loop.rows, exc |-> "DatabaseError", logged |-> {}]
        ELSE [rows |-> loop.rows \o loop.row_to_insert, exc |-> None, logged |-> {}]

\* gpkg_handler(fields, dynamic_model_schema_id, overwrite) on a schema holding
\* `rows`; db_error: the database refuses the bulk_create for a reason of its own.
\* Result: the rows afterwards, the exception raised (None when the task
\* succeeds) and the field names logged as errors.
gpkg_handler(fields, schema_id, overwrite, rows, db_error) ==
    LET loop == gpkg_handler_loop(fields, schema_id, overwrite, rows)
    IN  IF loop.returned
        THEN [rows |-> loop.rows, exc |-> None, logged |-> loop.logged]
        ELSE IF loop.row_to_insert = <<>>
        THEN [rows |-> loop.rows, exc |-> None, logged |-> {}]
        ELSE IF violates_unique(loop.rows, loop.row_to_insert)
        THEN [rows |-> loop.rows, exc |-> "IntegrityError", logged |-> {}]
        ELSE IF db_error
        THEN [rows |-> loop.rows, exc |-> "DatabaseError", logged |-> {}]
        ELSE [rows |-> loop.rows \o loop.row_to_insert, exc |-> None, logged |-> {}]

\* the external loader's runs: what it wrote and how it exited
LoaderRuns ==
    {[stdout |-> "done", stderr |-> "", returncode |-> 0],
     [stdout |-> "done", stderr |-> "Warning 1: truncated", returncode |-> 0],
     [stdout |-> "", stderr |-> "ERROR 1: failed", returncode |-> 1],
     [stdout |-> "", stderr |-> "", returncode |-> 1]}

\* the options gpkg_ogr2ogr gives the loader: the source file, the flags in
\* the order they are appended, and the operands of -nln
ogr2ogr_options(files, original_name, alternate, override_layer) ==
    [base_file |-> dict_get(files, "base_file"),
     nln |-> <<alternate, original_name>>,
     flags |-> <<"--config PG_USE_COPY YES", "-f PostgreSQL", "-lco DIM=2", "-nln">>
               \o (IF override_layer THEN <<"-overwrite">> ELSE << >>)]

\* the command of a load task that has not run
NoCommand == [base_file |-> None, nln |-> << >>, flags |-> << >>]

\* a load task that looks at the loader's exit code instead of its error stream
gpkg_ogr2ogr_exit_code(files, original_name, alternate, override_layer, run) ==
    IF run.returncode # 0 THEN run.stderr ELSE None

\* gpkg_ogr2ogr: the exception raised (None when it returns stdout)
gpkg_ogr2ogr(files, original_name, alternate, override_layer, run) ==
    IF run.stderr # "" THEN run.stderr ELSE None

\* VectorBaseErrorTask.on_failure: the Ledger after the hook of a task that
\* was called with `args` and raised an exception of detail `detail`
on_failure(ledger, detail, args) ==
    update_execution_request_status(ledger, args[2], STATUS_FAILED, DetailLog(detail))

\* GPKGFileHandler._update_execution_request(execution_id, log=...)
_update_execution_request(ledger, execution_id, log) ==
    queryset_update(ledger, filter_exec_id(ledger, PyStr(execution_id)), STATUS_RUNNING, log)


---------------------------------------------------------------------------
(* The state machine *)

PENDING == "PENDING"
SUCCESS == "SUCCESS"

\* a task state that is an exception detail: the task failed with it
IsFailure(state) == state \notin {PENDING, SUCCESS}

\* what ogr.Open reads from an uploaded file
FileLayers(name) == IF name \in DOMAIN uploads THEN uploads[name] ELSE << >>

\* the uploads of Spec
InitUploads == ("a.gpkg" :> <<LayerR, LayerS>>) @@ ("b.gpkg" :> <<LayerS, LayerT>>)

GPKG_HANDLER == "importer.handlers.gpkg.handler.GPKGFileHandler"

\* a message for the import_orchestrator task
Message(args, kwargs) == [task |-> "importer.import_orchestrator", args |-> args, kwargs |-> kwargs]

\* the initial message of an import, as ImporterViewSet.create sends it
IsStartImport(m) == Len(m.args) = 2 /\ m.kwargs.action = "import"

\* the layers import_resource reads for execution e: ogr.Open(files.get("base_file"))
LayersOf(e) == FileLayers(dict_get(ExecutionRequest[e].input_params.files, "base_file")[2])

\* the schema table before anything was imported: layer r was imported once
InitModelSchema == << [name |-> <<"r">>] >>
InitFieldSchema ==
    << << [name |-> <<"n", "a", "m", "e">>, class_name |-> "django.db.models.TextField",
           model_schema |-> 1, kwargs |-> [null |-> TRUE]] >> >>

Init ==
    /\ ExecutionRequest = << >>
    /\ ModelSchema = InitModelSchema
    /\ FieldSchema = InitFieldSchema
    /\ import_pc = << >>
    /\ chords = << >>
    /\ sent = EmptyBag
    /\ consumed = {}
    /\ responses = << >>
    /\ storage = {}
    /\ logged_fields = {}
    /\ uploads = InitUploads

\* A worker takes the initial import_orchestrator message of execution e; the
\* orchestrator runs the handler's import_resource stage for it.
import_orchestrator(m) ==
    /\ m \in BagToSet(sent)
    /\ m \notin consumed
    /\ IsStartImport(m)
    /\ m.args[2] \in DOMAIN ExecutionRequest
    /\ consumed' = consumed \cup {m}
    /\ import_pc' = [import_pc EXCEPT ![m.args[2]] = 1]
    /\ UNCHANGED <<ExecutionRequest, ModelSchema, FieldSchema, chords, sent, responses,
                   storage, logged_fields, uploads>>

\* the chord import_resource builds for one layer
new_chord(execution_id, files, layer, setup, should_be_overrided) ==
    [execution_id |-> execution_id,
     files |-> files,
     layer_name |-> layer.name,
     alternate |-> alternate_name(layer.name, setup.use_uuid, execution_id),
     schema_id |-> setup.schema_id,
     use_uuid |-> setup.use_uuid,
     overwrite |-> should_be_overrided,
     header |-> setup.job,
     batch_state |-> [b \in DOMAIN setup.job |-> PENDING],
     ogr_state |-> PENDING,
     ogr_command |-> NoCommand,
     body_runs |-> 0,
     errback_runs |-> 0]

\* the chords started so far for the index-th layer of execution e
chords_of(e, index) == {c \in DOMAIN chords : c[1] = e /\ c[2] = index}

\* the identity of the chord import_resource starts for the index-th layer of
\* execution e: the execution and the layer, and from the second run of
\* import_resource on, the number of the run
new_chord_id(e, index) ==
    IF chords_of(e, index) = {} THEN <<e, index>>
    ELSE <<e, index, Cardinality(chords_of(e, index)) + 1>>

\* The body of the loop of import_resource for an eligible layer, the
\* index-th of execution e: the progress update, _setup_dynamic_model and the
\* chord of the layer.
import_layer(e, index) ==
    LET layers == LayersOf(e)
        layer == layers[index]
        _exec == ExecutionRequest[e]
        should_be_overrided == _exec.input_params.override_existing_layer
        setup == _setup_dynamic_model(ModelSchema, layer, e, should_be_overrided)
    IN  /\ ExecutionRequest' =
              _update_execution_request(ExecutionRequest, e,
                  ProgressLog(layer.name, index, Len(layers)))
        /\ ModelSchema' = setup.table
        /\ FieldSchema' = IF Len(setup.table) > Len(FieldSchema)
                          THEN FieldSchema \o [i \in 1..(Len(setup.table) - Len(FieldSchema)) |-> << >>]
                          ELSE FieldSchema
        /\ chords' = chords @@
              (new_chord_id(e, index) :> new_chord(e, _exec.input_params.files, layer, setup,
                                         should_be_overrided))

\* a loop that sets up every layer, without asking should_be_imported
import_resource_every_layer(e) ==
    /\ e \in DOMAIN ExecutionRequest
    /\ import_pc[e] >= 1
    /\ import_pc[e] <= Len(LayersOf(e))
    /\ import_pc' = [import_pc EXCEPT ![e] = import_pc[e] + 1]
    /\ import_layer(e, import_pc[e])
    /\ UNCHANGED <<sent, consumed, responses, storage, logged_fields, uploads>>

\* One iteration of the loop of GPKGFileHandler.import_resource for execution e.
import_resource(e) ==
    /\ e \in DOMAIN ExecutionRequest
    /\ import_pc[e] >= 1
    /\ import_pc[e] <= Len(LayersOf(e))
    /\ LET index == import_pc[e]
           layer == LayersOf(e)[index]
           _exec == ExecutionRequest[e]
           should_be_overrided == _exec.input_params.override_existing_layer
       IN  /\ import_pc' = [import_pc EXCEPT ![e] = index + 1]
           /\ IF should_be_imported(layer.name, _exec.user,
                                    _exec.input_params.skip_existing_layer,
                                    should_be_overrided)
              THEN import_layer(e, index)
              ELSE UNCHANGED <<ExecutionRequest, ModelSchema, FieldSchema, chords>>
    /\ UNCHANGED <<sent, consumed, responses, storage, logged_fields, uploads>>

\* A worker runs field batch b of chord c: gpkg_handler, and on an exception
\* the on_failure hook, called with the task's own arguments.
gpkg_handler_task(c, b, db_error) ==
    /\ c \in DOMAIN chords
    /\ b \in DOMAIN chords[c].header
    /\ chords[c].batch_state[b] = PENDING
    /\ LET ch == chords[c]
           args == <<ch.header[b], PyInt(ch.schema_id), ch.overwrite>>
           res == gpkg_handler(ch.header[b], ch.schema_id, ch.overwrite,
                               FieldSchema[ch.schema_id], db_error)
       IN  /\ FieldSchema' = [FieldSchema EXCEPT ![ch.schema_id] = res.rows]
           /\ logged_fields' = logged_fields \cup res.logged
           /\ IF res.exc = None
              THEN /\ chords' = [chords EXCEPT ![c].batch_state[b] = SUCCESS]
                   /\ UNCHANGED ExecutionRequest
              ELSE /\ chords' = [chords EXCEPT ![c].batch_state[b] = res.exc]
                   /\ ExecutionRequest' = on_failure(ExecutionRequest, res.exc, args)
    /\ UNCHANGED <<ModelSchema, import_pc, sent, consumed, responses, storage, uploads>>

\* A worker runs the load task of chord c: gpkg_ogr2ogr, and on an exception
\* the on_failure hook.
gpkg_ogr2ogr_task(c, run) ==
    /\ c \in DOMAIN chords
    /\ chords[c].ogr_state = PENDING
    /\ LET ch == chords[c]
           args == <<ch.files, PyStr(ch.layer_name), PyStr(ch.alternate), ch.overwrite>>
           exc == gpkg_ogr2ogr(ch.files, ch.layer_name, ch.alternate, ch.overwrite, run)
           command == ogr2ogr_options(ch.files, ch.layer_name, ch.alternate, ch.overwrite)
       IN  IF exc = None
           THEN /\ chords' = [chords EXCEPT ![c].ogr_state = SUCCESS,
                                            ![c].ogr_command = command]
                /\ UNCHANGED ExecutionRequest
           ELSE /\ chords' = [chords EXCEPT ![c].ogr_state = exc,
                                            ![c].ogr_command = command]
                /\ ExecutionRequest' = on_failure(ExecutionRequest, exc, args)
    /\ UNCHANGED <<ModelSchema, FieldSchema, import_pc, sent, consumed, responses, storage,
                   logged_fields, uploads>>

\* the states of the header tasks of a chord: its field batches and its load task
header_states(ch) == Range(ch.batch_state) \cup {ch.ogr_state}

\* a join that waits for the load task alone
chord_body_ready_load_only(ch) == ch.ogr_state = SUCCESS /\ ch.body_runs = 0

\* a join that waits for the header to be complete, failed or not
chord_body_ready_complete(ch) == PENDING \notin header_states(ch) /\ ch.body_runs = 0

\* a join whose body is applied again
chord_body_ready_again(ch) == header_states(ch) = {SUCCESS} /\ ch.body_runs < 2

\* celery's chord: the body is applied once every header task has succeeded
chord_body_ready(ch) == header_states(ch) = {SUCCESS} /\ ch.body_runs = 0

\* celery's chord: the body's link_error is called once the header is complete
\* and a header task failed
chord_errback_ready(ch) ==
    /\ PENDING \notin header_states(ch)
    /\ \E st \in header_states(ch) : IsFailure(st)
    /\ ch.errback_runs = 0

\* dict.get on the input_params of an execution
params_get(input_params, key) ==
    IF key \in DOMAIN input_params THEN input_params[key] ELSE None

\* the message gpkg_next_step(_, execution_id, actual_step, layer_name, alternate) sends
next_step_message(ledger, execution_id, actual_step, layer_name, alternate) ==
    LET _exec == ledger[execution_id]
    IN  Message(<<params_get(_exec.input_params, "files"),
                  params_get(_exec.input_params, "store_spatial_files"),
                  _exec.user, execution_id, actual_step, layer_name, alternate>>, << >>)

\* The chord body of chord c: gpkg_next_step.
gpkg_next_step(c) ==
    /\ c \in DOMAIN chords
    /\ chord_body_ready(chords[c])
    /\ chords' = [chords EXCEPT ![c].body_runs = @ + 1]
    /\ sent' = sent (+) SetToBag({next_step_message(ExecutionRequest, chords[c].execution_id,
                                    STEP_IMPORT_RESOURCE, chords[c].layer_name,
                                    chords[c].alternate)})
    /\ UNCHANGED <<ExecutionRequest, ModelSchema, FieldSchema, import_pc, consumed, responses,
                   storage, logged_fields, uploads>>

\* The error path of the join of chord c (link_error 'gpkg_failure_step'): the
\* execution is marked failed with the detail of a failed header task.
gpkg_failure_step(c) ==
    /\ c \in DOMAIN chords
    /\ chord_errback_ready(chords[c])
    /\ \E detail \in {st \in header_states(chords[c]) : IsFailure(st)} :
          ExecutionRequest' = set_as_failed(ExecutionRequest,
                                            PyStr(chords[c].execution_id), detail)
    /\ chords' = [chords EXCEPT ![c].errback_runs = @ + 1]
    /\ UNCHANGED <<ModelSchema, FieldSchema, import_pc, sent, consumed, responses, storage,
                   logged_fields, uploads>>


---------------------------------------------------------------------------
(* The views (importer/api/views.py) *)

NoId == << >>

\* the payloads of ImporterViewSet.create: the upload's name under base_file
\* and the archive's name under zip_file (None when absent)
Uploads ==
    {[base_file |-> "a.gpkg", zip_file |-> None],
     [base_file |-> "b.gpkg", zip_file |-> None],
     [base_file |-> "x.txt", zip_file |-> None],
     [base_file |-> None, zip_file |-> "z.zip"],
     [base_file |-> None, zip_file |-> None]}

CreateRequests ==
    {[upload |-> u, override_existing_layer |-> o, skip_existing_layer |-> k] :
        u \in Uploads, o \in BOOLEAN, k \in BOOLEAN}

\* where ImporterViewSet.create may meet an exception
CreateFaults == {"none", "serializer", "clone", "validate", "create_execution_request",
                 "apply_async"}

\* the paths StorageManager.clone_remote_files stages for request n: the
\* archive z.zip unpacks to a.gpkg
retrieved_paths(n, name) == {<<"base_file", <<n, IF name = "z.zip" THEN "a.gpkg" ELSE name>> >>}

\* orchestrator.get_handler(_data): the handler whose files it recognises
get_handler(_data) ==
    IF dict_get(_data, "base_file") = None THEN None
    ELSE IF dict_get(_data, "base_file")[2] \in {"a.gpkg", "b.gpkg", "g.gpkg"} THEN GPKG_HANDLER
    ELSE None

\* handler.extract_params_from_data(_data)
extract_params_from_data(req) ==
    [override_existing_layer |-> req.override_existing_layer,
     skip_existing_layer |-> req.skip_existing_layer]

ErrorResponse(view, execution_id, detail) ==
    [view |-> view, status |-> "error", execution_id |-> execution_id, detail |-> detail]
OkResponse(view, code, execution_id) ==
    [view |-> view, status |-> code, execution_id |-> execution_id, detail |-> ""]

\* a test that accepts any upload under base_file
handler_found_file_only(_file, handler) == _file # None

\* the test `if _file and handler` of ImporterViewSet.create
handler_found(_file, handler) == _file # None /\ handler # None

\* a message that carries no execution id
create_message_without_id(files, execution_id, handler, action) ==
    Message(<<files, NoId>>, [handler |-> handler, action |-> action])

\* the message ImporterViewSet.create sends
create_message(files, execution_id, handler, action) ==
    Message(<<files, execution_id>>, [handler |-> handler, action |-> action])

\* an except block that records nothing on the Ledger
except_set_as_failed_skipped(ledger, execution_id, reason) == ledger

\* the except block of ImporterViewSet.create: `if execution_id: set_as_failed(...)`
except_set_as_failed(ledger, execution_id, reason) ==
    IF execution_id # NoId THEN set_as_failed(ledger, PyStr(execution_id), reason)
    ELSE ledger

\* ImporterViewSet.create for request req, the n-th request, meeting `fault`:
\* the Ledger, the staged paths, the messages sent and the response afterwards
create_result(req, n, fault, ledger, staged, msgs) ==
    LET _file == req.upload.base_file
        is_zip == req.upload.zip_file # None
        zip_paths == retrieved_paths(n, req.upload.zip_file)
        staged1 == IF is_zip THEN staged \cup {p[2] : p \in zip_paths} ELSE staged
        _data == IF is_zip THEN zip_paths
                 ELSE IF _file # None THEN {<<"base_file", <<n, _file>> >>}
                 ELSE {}
        handler == get_handler(_data)
        files == IF is_zip THEN zip_paths ELSE retrieved_paths(n, _file)
        staged2 == staged1 \cup {p[2] : p \in files}
        \* delete_retrieved_paths(force=True)
        cleaned == staged2 \ {p[2] : p \in files}
        created == create_execution_request(ledger, "u", TASKS_LIST[1],
                        [files |-> files, handler_module_path |-> handler]
                            @@ extract_params_from_data(req),
                        "import", "upload")
    IN  IF fault = "serializer"
        THEN [ledger |-> ledger, staged |-> staged, msgs |-> msgs,
              response |-> ErrorResponse("create", NoId, "ValidationError")]
        ELSE IF ~ handler_found(_file, handler)
        THEN [ledger |-> ledger, staged |-> staged1, msgs |-> msgs,
              response |-> ErrorResponse("create", NoId,
                                "No handlers found for this dataset type")]
        ELSE IF fault \in {"clone", "validate", "create_execution_request"}
        THEN [ledger |-> except_set_as_failed(ledger, NoId, fault),
              staged |-> cleaned, msgs |-> msgs,
              response |-> ErrorResponse("create", NoId, fault)]
        ELSE IF fault = "apply_async"
        THEN [ledger |-> except_set_as_failed(created.ledger, created.id, fault),
              staged |-> cleaned, msgs |-> msgs,
              response |-> ErrorResponse("create", created.id, fault)]
        ELSE [ledger |-> created.ledger, staged |-> staged2,
              msgs |-> msgs (+) SetToBag({create_message(files, created.id, handler, "import")}),
              response |-> OkResponse("create", "201", created.id)]

\* ImporterViewSet.create
create(req, fault) ==
    /\ Len(responses) < MaxRequests
    /\ LET res == create_result(req, Len(responses) + 1, fault, ExecutionRequest, storage, sent)
       IN  /\ res.msgs # sent =>
                    Cardinality({m \in BagToSet(sent) : IsStartImport(m)}) < MaxImports
           /\ ExecutionRequest' = res.ledger
           /\ storage' = res.staged
           /\ sent' = res.msgs
           /\ responses' = Append(responses, res.response)
           /\ import_pc' = [e \in DOMAIN res.ledger |->
                              IF e \in DOMAIN import_pc THEN import_pc[e] ELSE 0]
    /\ UNCHANGED <<ModelSchema, FieldSchema, chords, consumed, logged_fields, uploads>>

\* the resources ResourceImporter.copy is called on: whether the resource has
\* handler info, and whether its handler can do the copy action
CopyResources ==
    {[title |-> <<"r">>, alternate |-> <<"r">>, has_handler_info |-> TRUE, can_do |-> TRUE],
     [title |-> <<"s">>, alternate |-> <<"s">>, has_handler_info |-> TRUE, can_do |-> FALSE],
     [title |-> <<"t">>, alternate |-> <<"t">>, has_handler_info |-> FALSE, can_do |-> FALSE]}

\* the message ResourceImporter.copy sends
copy_message(execution_id, step, handler_module_path, action, resource) ==
    Message(<< {}, execution_id >>,
            [step |-> step, handler |-> handler_module_path, action |-> action,
             layer_name |-> resource.title, alternate |-> resource.alternate])

\* a copy that asks no handler whether it can do the action
copy_refused_never(resource, action) == FALSE

\* `if not handler.can_do(action)` of ResourceImporter.copy
copy_refused(resource, action) == ~ resource.can_do

\* ResourceImporter.copy on `resource`
copy_result(resource, ledger, msgs) ==
    LET created == create_execution_request(ledger, "u", "start_copy",
                        [handler_module_path |-> GPKG_HANDLER], "copy", "importer_copy")
    IN  IF ~ resource.has_handler_info
        THEN [ledger |-> ledger, msgs |-> msgs,
              response |-> OkResponse("copy", "resource_service_copy", NoId)]
        ELSE IF copy_refused(resource, "copy")
        THEN [ledger |-> ledger, msgs |-> msgs,
              response |-> ErrorResponse("copy", NoId, "HandlerException")]
        ELSE [ledger |-> created.ledger,
              msgs |-> msgs (+) SetToBag({copy_message(created.id, "start_copy", GPKG_HANDLER,
                                                       "copy", resource)}),
              response |-> OkResponse("copy", "200", created.id)]

\* ResourceImporter.copy
copy(resource) ==
    /\ Len(responses) < MaxRequests
    /\ LET res == copy_result(resource, ExecutionRequest, sent)
       IN  /\ ExecutionRequest' = res.ledger
           /\ sent' = res.msgs
           /\ responses' = Append(responses, res.response)
           /\ import_pc' = [e \in DOMAIN res.ledger |->
                              IF e \in DOMAIN import_pc THEN import_pc[e] ELSE 0]
    /\ UNCHANGED <<ModelSchema, FieldSchema, chords, consumed, storage, logged_fields, uploads>>

---------------------------------------------------------------------------

Next ==
    \/ \E req \in CreateRequests, fault \in CreateFaults : create(req, fault)
    \/ \E resource \in CopyResources : copy(resource)
    \/ \E m \in BagToSet(sent) : import_orchestrator(m)
    \/ \E e \in DOMAIN ExecutionRequest : import_resource(e)
    \/ \E c \in DOMAIN chords : \E b \in DOMAIN chords[c].header, db_error \in BOOLEAN :
            gpkg_handler_task(c, b, db_error)
    \/ \E c \in DOMAIN chords, run \in LoaderRuns : gpkg_ogr2ogr_task(c, run)
    \/ \E c \in DOMAIN chords : gpkg_next_step(c)
    \/ \E c \in DOMAIN chords : gpkg_failure_step(c)

Spec == Init /\ [][Next]_vars

---------------------------------------------------------------------------
(* The import of one generated layer of 0..MaxFields attribute fields, with *)
(* or without a geometry column: the state after ImporterViewSet.create has *)
(* accepted the upload g.gpkg, and the pipeline's steps from there.         *)

GeneratedRequests ==
    {[upload |-> [base_file |-> "g.gpkg", zip_file |-> None],
      override_existing_layer |-> FALSE, skip_existing_layer |-> FALSE]}

InitBatch ==
    /\ \E n \in 0..MaxFields, with_geometry \in BOOLEAN :
          uploads = ("g.gpkg" :> << GeneratedLayer(n, with_geometry) >>)
    /\ \E req \in GeneratedRequests :
          LET res == create_result(req, 1, "none", << >>, {}, EmptyBag)
          IN  /\ ExecutionRequest = res.ledger
              /\ storage = res.staged
              /\ sent = res.msgs
              /\ responses = << res.response >>
              /\ import_pc = [e \in DOMAIN res.ledger |-> 0]
    /\ ModelSchema = InitModelSchema
    /\ FieldSchema = InitFieldSchema
    /\ chords = << >>
    /\ consumed = {}
    /\ logged_fields = {}

NextBatch ==
    \/ \E m \in BagToSet(sent) : import_orchestrator(m)
    \/ \E e \in DOMAIN ExecutionRequest : import_resource(e)
    \/ \E c \in DOMAIN chords : \E b \in DOMAIN chords[c].header, db_error \in BOOLEAN :
            gpkg_handler_task(c, b, db_error)
    \/ \E c \in DOMAIN chords, run \in LoaderRuns : gpkg_ogr2ogr_task(c, run)
    \/ \E c \in DOMAIN chords : gpkg_next_step(c)
    \/ \E c \in DOMAIN chords : gpkg_failure_step(c)

SpecBatch == InitBatch /\ [][NextBatch]_vars

---------------------------------------------------------------------------
(* The import of the two-layer upload b.gpkg from the state in which         *)
(* ImporterViewSet.create has accepted it, with workers that keep taking the *)
(* tasks of the pipeline: a task or a message that is queued is eventually   *)
(* run.                                                                      *)

ImportRequests == {req \in CreateRequests : req.upload.base_file = "b.gpkg"}

\* the state in which ImporterViewSet.create has accepted one of `requests`
\* as its first request
InitAccepted(requests) ==
    /\ uploads = InitUploads
    /\ \E req \in requests :
          LET res == create_result(req, 1, "none", << >>, {}, EmptyBag)
          IN  /\ ExecutionRequest = res.ledger
              /\ storage = res.staged
              /\ sent = res.msgs
              /\ responses = << res.response >>
              /\ import_pc = [e \in DOMAIN res.ledger |-> 0]
    /\ ModelSchema = InitModelSchema
    /\ FieldSchema = InitFieldSchema
    /\ chords = << >>
    /\ consumed = {}
    /\ logged_fields = {}

InitImport == InitAccepted(ImportRequests)

SpecImport == InitImport /\ [][NextBatch]_vars /\ WF_vars(NextBatch)

---------------------------------------------------------------------------
(* The import pipeline alone, from the state in which ImporterViewSet.create *)
(* has accepted an upload that has a handler, under every interleaving of    *)
(* its tasks.                                                                *)

PipelineRequests ==
    {req \in CreateRequests : req.upload.base_file \in {"a.gpkg", "b.gpkg"}}

InitPipeline == InitAccepted(PipelineRequests)

SpecPipeline == InitPipeline /\ [][NextBatch]_vars

---------------------------------------------------------------------------
(* The import of a one-layer upload whose import_orchestrator message is     *)
(* delivered again after import_resource has returned: import_resource runs  *)
(* again for the same execution id and layer, while the tasks of the earlier *)
(* run may still be queued.                                                  *)

\* the runs of import_resource that have started a chord for execution e
RunsOf(e) ==
    LET counts == {Cardinality(chords_of(e, c[2])) : c \in {c \in DOMAIN chords : c[1] = e}}
    IN  IF counts = {} THEN 0 ELSE CHOOSE n \in counts : \A k \in counts : k <= n

\* A worker takes the initial message of an execution a second time (the
\* broker delivers it again): import_resource starts over for it.
import_orchestrator_redelivered(m) ==
    /\ m \in consumed
    /\ IsStartImport(m)
    /\ m.args[2] \in DOMAIN ExecutionRequest
    /\ import_pc[m.args[2]] = Len(LayersOf(m.args[2])) + 1
    /\ RunsOf(m.args[2]) < MaxRuns
    /\ import_pc' = [import_pc EXCEPT ![m.args[2]] = 1]
    /\ UNCHANGED <<ExecutionRequest, ModelSchema, FieldSchema, chords, sent, consumed,
                   responses, storage, logged_fields, uploads>>

RerunLayers == {LayerQ, LayerS, LayerT}

RerunRequests ==
    {req \in [upload : {[base_file |-> "g.gpkg", zip_file |-> None]},
              override_existing_layer : BOOLEAN, skip_existing_layer : BOOLEAN] : TRUE}

InitRerun ==
    /\ \E layer \in RerunLayers : uploads = ("g.gpkg" :> << layer >>)
    /\ \E req \in RerunRequests :
          LET res == create_result(req, 1, "none", << >>, {}, EmptyBag)
          IN  /\ ExecutionRequest = res.ledger
              /\ storage = res.staged
              /\ sent = res.msgs
              /\ responses = << res.response >>
              /\ import_pc = [e \in DOMAIN res.ledger |-> 0]
    /\ ModelSchema = InitModelSchema
    /\ FieldSchema = InitFieldSchema
    /\ chords = << >>
    /\ consumed = {}
    /\ logged_fields = {}

NextRerun ==
    \/ NextBatch
    \/ \E m \in consumed : import_orchestrator_redelivered(m)

SpecRerun == InitRerun /\ [][NextRerun]_vars

---------------------------------------------------------------------------
(* The two views alone: every sequence of requests and of faults met.        *)

NextViews ==
    \/ \E req \in CreateRequests, fault \in CreateFaults : create(req, fault)
    \/ \E resource \in CopyResources : copy(resource)

SpecViews == Init /\ [][NextViews]_vars


---------------------------------------------------------------------------
(* Properties *)

Executions == DOMAIN ExecutionRequest

\* the messages gpkg_next_step has sent for execution e and layer layer_name
NextStepMessages(e, layer_name) ==
    {m \in BagToSet(sent) : Len(m.args) = 7 /\ m.args[4] = e /\ m.args[6] = layer_name}

HeaderFailed(ch) == \E st \in header_states(ch) : IsFailure(st)

\* C1: the continuation gpkg_next_step of a layer has run, and its message to
\* import_orchestrator exists, only when every field batch of the layer and the
\* layer's load task have succeeded.
C1_NextStepAfterJoin ==
    \A c \in DOMAIN chords :
        (chords[c].body_runs > 0 \/ NextStepMessages(c[1], chords[c].layer_name) # {})
            => header_states(chords[c]) = {SUCCESS}

\* C1 witness: a continuation has run for a layer that has a field batch.
C1_Witness ==
    \E c \in DOMAIN chords :
        /\ chords[c].body_runs = 1
        /\ Len(chords[c].header) >= 1
        /\ NextStepMessages(c[1], chords[c].layer_name) # {}

\* C2: when a field batch or the load task of a layer has failed, gpkg_next_step
\* has not run for the layer and no import_orchestrator message exists for that
\* execution and layer.
C2_NoNextStepAfterFailure ==
    \A c \in DOMAIN chords :
        HeaderFailed(chords[c]) =>
            /\ chords[c].body_runs = 0
            /\ NextStepMessages(c[1], chords[c].layer_name) = {}

\* C2 witness: the header of a chord is complete, one of its tasks failed and
\* another succeeded.
C2_Witness ==
    \E c \in DOMAIN chords :
        /\ HeaderFailed(chords[c])
        /\ SUCCESS \in header_states(chords[c])
        /\ PENDING \notin header_states(chords[c])
        /\ chords[c].errback_runs = 1

\* the header tasks of chord c that fail in this step, as the failure details
FailingNow(c) ==
    {chords'[c].batch_state[b] : b \in {b \in DOMAIN chords[c].batch_state :
            chords[c].batch_state[b] = PENDING /\ IsFailure(chords'[c].batch_state[b])}}
    \cup (IF chords[c].ogr_state = PENDING /\ IsFailure(chords'[c].ogr_state)
          THEN {chords'[c].ogr_state} ELSE {})

\* C3 (as claimed): a step in which a field batch or a load task fails leaves
\* the record of the execution that started it failed, with the raised detail
\* as its log, and every other record as it was.
C3_HookMarksItsExecution ==
    [][\A c \in DOMAIN chords : \A detail \in FailingNow(c) :
            /\ ExecutionRequest'[c[1]].status = STATUS_FAILED
            /\ ExecutionRequest'[c[1]].log = DetailLog(detail)
            /\ \A e \in Executions \ {c[1]} : ExecutionRequest'[e] = ExecutionRequest[e]
      ]_vars

\* the execution id with its hyphens replaced by underscores, position by position
Underscored(execution_id, s) ==
    /\ Len(s) = Len(execution_id)
    /\ \A i \in DOMAIN s : s[i] = (IF execution_id[i] = "-" THEN "_" ELSE execution_id[i])

\* C4: the alternate given to a layer's load task is the name of the schema
\* whose id is given to the layer's field batches; for a layer whose bare name
\* had a schema and without override, both are the layer name, "_" and the
\* execution id with underscores for hyphens, the schema is not the earlier one,
\* and the earlier schema keeps exactly its fields unless another layer import
\* writes to it.
C4_AlternateIsSchemaName ==
    \A c \in DOMAIN chords :
        LET ch == chords[c]
            existed == \E i \in DOMAIN InitModelSchema : InitModelSchema[i].name = ch.layer_name
        IN  /\ ModelSchema[ch.schema_id].name = ch.alternate
            /\ (existed /\ ~ ch.overwrite) =>
                  /\ Len(ch.alternate) = Len(ch.layer_name) + 1 + Len(c[1])
                  /\ SubSeq(ch.alternate, 1, Len(ch.layer_name)) = ch.layer_name
                  /\ ch.alternate[Len(ch.layer_name) + 1] = "_"
                  /\ Underscored(c[1], SubSeq(ch.alternate, Len(ch.layer_name) + 2,
                                              Len(ch.alternate)))
                  /\ ch.schema_id \notin DOMAIN InitModelSchema
                  /\ \A i \in DOMAIN InitModelSchema :
                        (/\ InitModelSchema[i].name = ch.layer_name
                         /\ \A c2 \in DOMAIN chords : chords[c2].schema_id # i)
                            => FieldSchema[i] = InitFieldSchema[i]

\* C4 witness: a layer whose bare name had a schema was imported without
\* override, and its field batch and its load task have run.
C4_Witness ==
    \E c \in DOMAIN chords :
        /\ chords[c].use_uuid
        /\ Len(chords[c].header) >= 1
        /\ chords[c].batch_state[1] = SUCCESS
        /\ chords[c].ogr_state = SUCCESS

Terminal(status) == status \in {STATUS_FAILED, STATUS_FINISHED}

\* C5 (as claimed): no step changes the status of an execution that is failed
\* or finished.
C5_TerminalStatusStays ==
    [][\A e \in Executions :
            Terminal(ExecutionRequest[e].status) =>
                ExecutionRequest'[e].status = ExecutionRequest[e].status]_vars


\* the layers of execution e that should_be_imported accepts
Eligible(e, k) ==
    should_be_imported(LayersOf(e)[k].name, ExecutionRequest[e].user,
                       ExecutionRequest[e].input_params.skip_existing_layer,
                       ExecutionRequest[e].input_params.override_existing_layer)

\* import_resource has returned for e, every layer of its file was eligible
\* and none met a naming conflict
CleanImport(e) ==
    /\ ExecutionRequest[e].action = "import"
    /\ import_pc[e] = Len(LayersOf(e)) + 1
    /\ \A k \in 1..Len(LayersOf(e)) :
          /\ Eligible(e, k)
          /\ <<e, k>> \in DOMAIN chords => ~ chords[<<e, k>>].use_uuid

\* the messages gpkg_next_step has sent for execution e, with their copies
NextStepCount(e) ==
    LET ms == {m \in BagToSet(sent) : Len(m.args) = 7 /\ m.args[4] = e}
        RECURSIVE Sum(_)
        Sum(S) == IF S = {} THEN 0
                  ELSE LET m == CHOOSE x \in S : TRUE IN CopiesIn(m, sent) + Sum(S \ {m})
    IN  Sum(ms)

\* C6: after import_resource has returned for a file of N layers, all eligible
\* and without naming conflict, there are exactly N chords, one per layer, each
\* with its schema job and its load task; no continuation runs twice, and once
\* every task has succeeded and no continuation is pending, exactly N
\* continuations have run and sent N messages, one per layer.
C6_OneJobPerLayer ==
    \A e \in Executions :
        CleanImport(e) =>
            LET N == Len(LayersOf(e))
                mine == {c \in DOMAIN chords : c[1] = e}
            IN  /\ mine = {<<e, k>> : k \in 1..N}
                /\ \A c \in mine :
                      /\ chords[c].layer_name = LayersOf(e)[c[2]].name
                      /\ chords[c].body_runs <= 1
                /\ (\A c \in mine : /\ header_states(chords[c]) = {SUCCESS}
                                   /\ ~ chord_body_ready(chords[c]))
                      => /\ \A c \in mine :
                               /\ chords[c].body_runs = 1
                               /\ Cardinality(NextStepMessages(e, chords[c].layer_name)) = 1
                         /\ NextStepCount(e) = N

\* C6 witness: a file of two layers was imported without conflict and both
\* continuations have run.
C6_Witness ==
    \E e \in Executions :
        /\ CleanImport(e)
        /\ Len(LayersOf(e)) = 2
        /\ \A k \in 1..2 : chords[<<e, k>>].body_runs = 1
        /\ NextStepCount(e) = 2

RowNames(schema_id) == {FieldSchema[schema_id][i].name : i \in DOMAIN FieldSchema[schema_id]}

\* C7 (as claimed): once a field batch has completed, each of its fields with a
\* mapped type is a field of the schema, and each of its fields without one is
\* logged and is not.
C7_OnlyUnmappedFieldDropped ==
    \A c \in DOMAIN chords : \A b \in DOMAIN chords[c].header :
        chords[c].batch_state[b] = SUCCESS =>
            \A i \in DOMAIN chords[c].header[b] :
                LET field == chords[c].header[b][i]
                IN  IF field.class_name = None
                    THEN /\ field.name \in logged_fields
                         /\ field.name \notin RowNames(chords[c].schema_id)
                    ELSE field.name \in RowNames(chords[c].schema_id)

ViewMessages == {m \in BagToSet(sent) : Len(m.args) = 2}

Accepted(response) == response.status \in {"200", "201"}

\* C9: every import_orchestrator message sent by a view carries the id of an
\* execution request that exists, was sent once, and answers a request that
\* was accepted with that id; every accepted request has exactly one message.
C9_EnqueuedOnceAfterCreate ==
    /\ \A m \in ViewMessages :
          /\ m.args[2] \in Executions
          /\ CopiesIn(m, sent) = 1
          /\ \E i \in DOMAIN responses :
                Accepted(responses[i]) /\ responses[i].execution_id = m.args[2]
    /\ \A i \in DOMAIN responses :
          Accepted(responses[i]) =>
              /\ responses[i].execution_id \in Executions
              /\ Cardinality({m \in ViewMessages : m.args[2] = responses[i].execution_id}) = 1
              /\ \A j \in DOMAIN responses :
                    (Accepted(responses[j]) /\ j # i) =>
                        responses[j].execution_id # responses[i].execution_id

\* C9 witness: create and copy have each accepted a request.
C9_Witness ==
    /\ \E i \in DOMAIN responses : responses[i].view = "create" /\ Accepted(responses[i])
    /\ \E i \in DOMAIN responses : responses[i].view = "copy" /\ Accepted(responses[i])

\* the requests of create for which no handler resolves or that give no base_file
UnhandledRequests ==
    {req \in CreateRequests : req.upload.base_file \notin {"a.gpkg", "b.gpkg"}}

RECURSIVE Flatten(_)
Flatten(batches) ==
    IF batches = << >> THEN << >>
    ELSE Head(batches) \o Flatten(Tail(batches))

\* C8: the field batches of a layer of n fields (its geometry field included)
\* are ceil(n / 50) tasks of one group, each of at most 50 fields and all but
\* the last of exactly 50; put end to end they are the field list (each field
\* is in exactly one batch); 130 fields give batches of 50, 50 and 30; and once
\* all the batches have completed the schema holds the n fields, each once.
C8_BatchesPartitionFields ==
    \A c \in DOMAIN chords :
        LET ch == chords[c]
            fields == layer_schema(LayersOf(c[1])[c[2]])
            n == Len(fields)
            k == Len(ch.header)
            rows == FieldSchema[ch.schema_id]
        IN  /\ k * BatchSize >= n
            /\ (k - 1) * BatchSize < n \/ (k = 0 /\ n = 0)
            /\ Len(ch.batch_state) = k
            /\ \A b \in 1..k : /\ Len(ch.header[b]) <= BatchSize
                               /\ Len(ch.header[b]) >= 1
                               /\ b < k => Len(ch.header[b]) = BatchSize
            /\ Flatten(ch.header) = fields
            /\ n = 130 => [b \in 1..k |-> Len(ch.header[b])] = <<50, 50, 30>>
            /\ (\A b \in 1..k : ch.batch_state[b] = SUCCESS) =>
                  /\ Len(rows) = n
                  /\ {rows[i].name : i \in DOMAIN rows} = {fields[i].name : i \in DOMAIN fields}
                  /\ Cardinality({rows[i].name : i \in DOMAIN rows}) = n

\* C8 witness: the three batches of a layer of 130 fields have completed, the
\* last one first.
C8_Witness ==
    \E c \in DOMAIN chords :
        /\ Len(layer_schema(LayersOf(c[1])[c[2]])) = 130
        /\ Len(chords[c].header) = 3
        /\ \A b \in 1..3 : chords[c].batch_state[b] = SUCCESS
        /\ FieldSchema[chords[c].schema_id][1].name = chords[c].header[3][1].name


\* the executions a step creates
NewExecutions == (DOMAIN ExecutionRequest') \ (DOMAIN ExecutionRequest)

\* the paths request i staged that are still in the local storage
StagedBy(i) == {p \in storage : p[1] = i}

\* C11 (as claimed): once create has answered a request with an error and no
\* execution id existed, none of the files staged for that request is left in
\* the local storage, the files unpacked from a zip_file included.
C11_StagedFilesDeleted ==
    \A i \in DOMAIN responses :
        (/\ responses[i].view = "create"
         /\ responses[i].status = "error"
         /\ responses[i].execution_id = NoId) => StagedBy(i) = {}

\* the requests of create whose upload has a handler
HandledRequests == CreateRequests \ UnhandledRequests

\* C12 (as claimed): a step of create that fails while enqueuing, after the
\* execution request was created, leaves that execution failed and does not
\* answer the caller with an error.
C12_FailureAfterCreateNotRaised ==
    [][\A req \in HandledRequests :
            create(req, "apply_async") =>
                /\ \A e \in NewExecutions : ExecutionRequest'[e].status = STATUS_FAILED
                /\ responses'[Len(responses')].status # "error"
      ]_vars

\* C12 (amended): a step of create that fails while enqueuing, after the
\* execution request was created, creates exactly one execution and leaves it
\* failed with the failure as its log, leaves every other execution as it was,
\* sends no message, deletes the files staged for the request, and answers
\* the caller with an error that carries the failure.
C12_FailureAfterCreateRecordedAndRaised ==
    [][\A req \in HandledRequests :
            create(req, "apply_async") =>
                /\ Cardinality(NewExecutions) = 1
                /\ \A e \in NewExecutions :
                      /\ ExecutionRequest'[e].status = STATUS_FAILED
                      /\ ExecutionRequest'[e].log = DetailLog("apply_async")
                /\ \A e \in Executions : ExecutionRequest'[e] = ExecutionRequest[e]
                /\ sent' = sent
                /\ {p \in storage' : p[1] = Len(responses')} = {}
                /\ responses'[Len(responses')].status = "error"
                /\ responses'[Len(responses')].detail = "apply_async"
      ]_vars

\* C12 witness: an execution created by create is failed with the enqueuing
\* failure as its log, and the request was answered with that error.
C12_Witness ==
    \E e \in Executions : \E i \in DOMAIN responses :
        /\ ExecutionRequest[e].status = STATUS_FAILED
        /\ ExecutionRequest[e].log = DetailLog("apply_async")
        /\ responses[i].status = "error"
        /\ responses[i].detail = "apply_async"
        /\ responses[i].execution_id = e

\* the resources whose handler cannot do the copy action
UncopiableResources == {resource \in CopyResources : resource.has_handler_info /\ ~ resource.can_do}

\* C15: a step of copy on a resource whose handler cannot do the copy action
\* answers with a handler error, creates no execution request and sends no
\* message.
C15_CannotCopyFailsBeforeCreate ==
    [][\A resource \in UncopiableResources :
            copy(resource) =>
                /\ ExecutionRequest' = ExecutionRequest
                /\ sent' = sent
                /\ responses'[Len(responses')] = ErrorResponse("copy", NoId, "HandlerException")
      ]_vars

\* C15 witness: copy has refused a resource with a handler error, and there is
\* no execution request and no message.
C15_Witness ==
    /\ \E i \in DOMAIN responses :
          responses[i].view = "copy" /\ responses[i].detail = "HandlerException"
    /\ Executions = {}
    /\ sent = EmptyBag

\* the header tasks of the chords of execution e that have failed: a chord
\* and a batch index, 0 for the load task
FailedUnits(e) ==
    UNION {{<<c, b>> : b \in {b \in DOMAIN chords[c].batch_state :
                                  IsFailure(chords[c].batch_state[b])}}
           \cup (IF IsFailure(chords[c].ogr_state) THEN {<<c, 0>>} ELSE {}) :
           c \in {c \in DOMAIN chords : c[1] = e}}

\* the detail a failed header task raised
FailureDetail(u) ==
    IF u[2] = 0 THEN chords[u[1]].ogr_state ELSE chords[u[1]].batch_state[u[2]]

\* C13 (as claimed): when several field batches or load tasks of one execution
\* have failed, in any order, the execution is failed and its log is the
\* detail one of them raised.
C13_SiblingFailuresRecordedOnce ==
    \A e \in Executions :
        Cardinality(FailedUnits(e)) >= 2 =>
            /\ ExecutionRequest[e].status = STATUS_FAILED
            /\ \E u \in FailedUnits(e) : ExecutionRequest[e].log = DetailLog(FailureDetail(u))

\* the log column is one text, set by QuerySet.update: it holds a line when
\* it is that line
LogHolds(log, line) == log = line

\* C14 (as claimed): every progress line import_resource has written for an
\* execution (one per layer it has set up) is held by the execution's log.
C14_LogLinesKept ==
    \A c \in DOMAIN chords :
        LogHolds(ExecutionRequest[c[1]].log,
                 ProgressLog(chords[c].layer_name, c[2], Len(LayersOf(c[1]))))

\* the names of the schemas
SchemaNames == {ModelSchema[i].name : i \in DOMAIN ModelSchema}

\* of the layers import_resource has passed, each eligible one has its chord
\* and each excluded one has no chord, no continuation message and no schema
\* of its disambiguated name
PassedLayersSetUp ==
    \A e \in Executions :
        (ExecutionRequest[e].action = "import" /\ import_pc[e] >= 1) =>
            \A k \in 1..Len(LayersOf(e)) :
                k < import_pc[e] =>
                    IF Eligible(e, k)
                    THEN <<e, k>> \in DOMAIN chords
                    ELSE /\ <<e, k>> \notin DOMAIN chords
                         /\ NextStepMessages(e, LayersOf(e)[k].name) = {}
                         /\ uuid_schema_name(LayersOf(e)[k].name, e) \notin SchemaNames

\* C16: the iteration of import_resource over a layer that should_be_imported
\* refuses changes no schema, no field, no chord (no field batch, no load
\* task, no continuation), no message and no Ledger record, and moves on to
\* the next layer; after it every passed layer that is eligible has its chord
\* and no excluded one has.
C16_SkippedLayerLeavesNothing ==
    [][/\ \A e \in Executions :
              (import_resource(e) /\ ~ Eligible(e, import_pc[e])) =>
                  /\ UNCHANGED <<ExecutionRequest, ModelSchema, FieldSchema, chords, sent>>
                  /\ import_pc'[e] = import_pc[e] + 1
       /\ PassedLayersSetUp'
      ]_vars

\* C16 witness: the first layer of a file was excluded and the second one was
\* imported up to its continuation.
C16_Witness ==
    \E e \in Executions :
        /\ ExecutionRequest[e].action = "import"
        /\ import_pc[e] = 3
        /\ ~ Eligible(e, 1)
        /\ <<e, 1>> \notin DOMAIN chords
        /\ <<e, 2>> \in DOMAIN chords
        /\ chords[<<e, 2>>].body_runs = 1

\* the load tasks that have run were given -overwrite exactly when their
\* execution asked for override
OverwriteFlagFollowsOverride ==
    \A c \in DOMAIN chords :
        chords[c].ogr_state # PENDING =>
            /\ ("-overwrite" \in Range(chords[c].ogr_command.flags))
                  <=> ExecutionRequest[c[1]].input_params.override_existing_layer
            /\ chords[c].ogr_command.nln = <<chords[c].alternate, chords[c].layer_name>>

\* C17: the iteration of import_resource over an eligible layer whose bare name
\* has a schema, with override requested, adds no schema, gives the field
\* batches the id of the existing schema and the overwrite mode, and makes the
\* alternate the bare layer name; a field batch in overwrite mode keeps every
\* row of the schema in place and adds no row of a name the schema had; a load
\* task that has run was given -overwrite if and only if override was requested.
C17_OverrideReusesSchema ==
    [][/\ \A e \in Executions :
              (/\ import_resource(e)
               /\ Eligible(e, import_pc[e])
               /\ ExecutionRequest[e].input_params.override_existing_layer
               /\ LayersOf(e)[import_pc[e]].name \in SchemaNames) =>
                  LET c == <<e, import_pc[e]>>
                      layer_name == LayersOf(e)[import_pc[e]].name
                  IN  /\ ModelSchema' = ModelSchema
                      /\ c \in DOMAIN chords'
                      /\ chords'[c].schema_id \in schema_ids(ModelSchema, layer_name)
                      /\ chords'[c].alternate = layer_name
                      /\ chords'[c].overwrite
                      /\ ~ chords'[c].use_uuid
       /\ \A c \in DOMAIN chords : \A b \in DOMAIN chords[c].header :
              (/\ chords[c].overwrite
               /\ chords[c].batch_state[b] = PENDING
               /\ chords'[c].batch_state[b] # PENDING) =>
                  LET old == FieldSchema[chords[c].schema_id]
                      new == FieldSchema'[chords[c].schema_id]
                  IN  /\ Len(new) >= Len(old)
                      /\ \A j \in DOMAIN old : new[j].name = old[j].name
                      /\ \A j \in (DOMAIN new) \ (DOMAIN old) :
                            \A i \in DOMAIN old : new[j].name # old[i].name
       /\ OverwriteFlagFollowsOverride'
      ]_vars

\* C17 witness: a layer whose bare name had a schema was imported with
\* override: its field batch has updated the schema's row in place and its load
\* task has run with -overwrite.
C17_Witness ==
    \E c \in DOMAIN chords :
        /\ chords[c].overwrite
        /\ chords[c].schema_id \in DOMAIN InitModelSchema
        /\ chords[c].alternate = chords[c].layer_name
        /\ chords[c].batch_state[1] = SUCCESS
        /\ FieldSchema[chords[c].schema_id][1].class_name = "django.db.models.CharField"
        /\ chords[c].ogr_state = SUCCESS
        /\ "-overwrite" \in Range(chords[c].ogr_command.flags)

\* no continuation has run for a chord whose load task failed
FailedLoadHoldsJoin ==
    \A c \in DOMAIN chords :
        IsFailure(chords[c].ogr_state) =>
            chords[c].body_runs = 0 /\ NextStepMessages(c[1], chords[c].layer_name) = {}

\* C18: a step of the load task on a loader run fails the task if and only if
\* the run wrote to its error stream, whatever its exit code, and the failure
\* carries what was written; a run that wrote nothing there succeeds; and a
\* chord whose load task failed never runs its continuation.
C18_LoadFailsIffErrorOutput ==
    [][/\ \A c \in DOMAIN chords : \A run \in LoaderRuns :
              gpkg_ogr2ogr_task(c, run) =>
                  /\ IsFailure(chords'[c].ogr_state) <=> run.stderr # ""
                  /\ run.stderr # "" => chords'[c].ogr_state = run.stderr
                  /\ run.stderr = "" => chords'[c].ogr_state = SUCCESS
       /\ FailedLoadHoldsJoin'
      ]_vars

\* C18 witness: a load task failed on a run that exited with code 0 and wrote
\* to its error stream, its field batch succeeded, and the join's error path
\* has run instead of the continuation.
C18_Witness ==
    \E c \in DOMAIN chords : \E run \in LoaderRuns :
        /\ run.returncode = 0
        /\ run.stderr # ""
        /\ chords[c].ogr_state = run.stderr
        /\ Range(chords[c].batch_state) = {SUCCESS}
        /\ chords[c].errback_runs = 1
        /\ chords[c].body_runs = 0

\* the stage that follows import_resource in the handler's task list
SuccessorStep ==
    TASKS_LIST[(CHOOSE i \in DOMAIN TASKS_LIST : TASKS_LIST[i] = STEP_IMPORT_RESOURCE) + 1]

\* m calls import_orchestrator the way the views do: files and execution id
\* as the two positional arguments, and step, layer_name and alternate by
\* keyword (views.py:154-156 and 240-248)
EntryPointCall(m, files, execution_id, step, layer_name, alternate) ==
    /\ m.task = "importer.import_orchestrator"
    /\ Len(m.args) = 2
    /\ {"step", "layer_name", "alternate"} \subseteq DOMAIN m.kwargs
    /\ m.args[1] = files
    /\ m.args[2] = execution_id
    /\ m.kwargs.step = step
    /\ m.kwargs.layer_name = layer_name
    /\ m.kwargs.alternate = alternate

\* C19 (as claimed): a step of gpkg_next_step for a layer sends one message
\* that calls import_orchestrator, in the argument positions of the views'
\* calls, with the execution's files, the execution id, the stage after
\* importer.import_resource, the layer name and the alternate name.
C19_NextStepReinvokesEntryPoint ==
    [][\A c \in DOMAIN chords :
            gpkg_next_step(c) =>
                \E m \in BagToSet(sent') :
                    /\ CopiesIn(m, sent') = CopiesIn(m, sent) + 1
                    /\ EntryPointCall(m, ExecutionRequest[c[1]].input_params.files, c[1],
                                      SuccessorStep, chords[c].layer_name, chords[c].alternate)
      ]_vars

\* the ids create_execution_request can give
ExecIds == {NewExecId(k) : k \in 1..MaxRequests}

\* e is an accepted import, without override, of a file of two layers, both
\* eligible and neither with a schema of its bare name
TwoLayerImport(e) ==
    /\ e \in Executions
    /\ ExecutionRequest[e].action = "import"
    /\ \E m \in ViewMessages : m.args[2] = e
    /\ ~ ExecutionRequest[e].input_params.override_existing_layer
    /\ Len(LayersOf(e)) = 2
    /\ \A k \in 1..2 :
          /\ Eligible(e, k)
          /\ \A i \in DOMAIN InitModelSchema : InitModelSchema[i].name # LayersOf(e)[k].name

\* no field batch and no load task of execution e has failed
NoTaskFailed(e) == \A c \in DOMAIN chords : c[1] = e => ~ HeaderFailed(chords[c])

\* the field names of a layer: its attributes in lower case and its geometry column
ExpectedNames(layer) ==
    {lower(layer.schema[i].name) : i \in DOMAIN layer.schema}
    \cup (IF layer.geometry_column # << >> THEN {layer.geometry_column} ELSE {})

\* both layers of e are imported: each schema holds the layer's fields, each
\* once, each load task has run and succeeded, and each continuation has run
\* once and sent its message
BothLayersDone(e) ==
    \A k \in 1..2 :
        /\ <<e, k>> \in DOMAIN chords
        /\ LET ch == chords[<<e, k>>]
               layer == LayersOf(e)[k]
           IN  /\ RowNames(ch.schema_id) = ExpectedNames(layer)
               /\ Len(FieldSchema[ch.schema_id]) = Cardinality(ExpectedNames(layer))
               /\ ch.ogr_state = SUCCESS
               /\ ch.ogr_command # NoCommand
               /\ ch.body_runs = 1
               /\ \A m \in NextStepMessages(e, layer.name) : CopiesIn(m, sent) = 1
               /\ Cardinality(NextStepMessages(e, layer.name)) = 1

\* C20: with workers that keep taking queued tasks, in a run where no field
\* batch and no load task fails, an accepted import of two eligible layers
\* without naming conflict and without override leads to both schemas holding
\* their full field sets, both loads run once and both continuations fired,
\* and the execution is never failed.
C20_TwoLayerImportCompletes ==
    \A e \in ExecIds :
        ([] NoTaskFailed(e)) =>
            /\ TwoLayerImport(e) ~> BothLayersDone(e)
            /\ [] (TwoLayerImport(e) => ExecutionRequest[e].status # STATUS_FAILED)

\* C20 witness: an import of two eligible layers without conflict is complete
\* and none of its tasks failed.
C20_Witness ==
    \E e \in Executions :
        TwoLayerImport(e) /\ NoTaskFailed(e) /\ BothLayersDone(e)

BatchNames(d, b) == {chords[d].header[b][f].name : f \in DOMAIN chords[d].header[b]}

\* the rows of schema i under the names of the field batches that have completed
CommittedFields(i) ==
    {k \in DOMAIN FieldSchema[i] :
        \E d \in DOMAIN chords : \E b \in DOMAIN chords[d].header :
            /\ chords[d].schema_id = i
            /\ chords[d].batch_state[b] = SUCCESS
            /\ FieldSchema[i][k].name \in BatchNames(d, b)}

\* a step of the failure path of chord c: one of its tasks fails (and its
\* on_failure hook runs) or the error path of its join runs
FailurePathStep(c) ==
    \/ FailingNow(c) # {}
    \/ chords'[c].errback_runs > chords[c].errback_runs

\* the Ledger differs at most in the status and the log of execution e
LedgerFrame(e) ==
    /\ DOMAIN ExecutionRequest' = DOMAIN ExecutionRequest
    /\ \A x \in DOMAIN ExecutionRequest :
          IF x = e
          THEN ExecutionRequest'[x] =
                  [ExecutionRequest[x] EXCEPT !.status = ExecutionRequest'[x].status,
                                              !.log = ExecutionRequest'[x].log]
          ELSE ExecutionRequest'[x] = ExecutionRequest[x]

=============================================================================
